---- MODULE Spec2Model ----
(***************************************************************************)
(* Model of droppedFrames.py: the scan of a capture directory for gaps     *)
(* between the timestamps embedded in FF file names (checkDroppedFrames),  *)
(* the command-line walk over the capture tree (commandLine) and the       *)
(* nightly run as an RMS external script (rmsExternal, sendEmail).         *)
(*                                                                         *)
(* File names are sequences of ASCII codes, so that the sort of the        *)
(* listing, the slice fname[10:25] and strptime act on characters.         *)
(***************************************************************************)
EXTENDS Integers, Sequences, FiniteSets, TLC

\* ------------------------------------------------------------ bounds

\* Largest number of *.fits files in a directory handed to checkDroppedFrames.
MaxFiles == 6

\* Largest number of directories os.walk yields in commandLine.
MaxDirs == 2

\* Largest number of *.fits files in one directory of the commandLine walk.
MaxWalkFiles == 2

\* ------------------------------------------------------- characters

Ch0       == 48
ChSpace   == 32
ChUnder   == 95
ChF       == 70
ChU       == 85
ChK       == 75
ChX       == 120
ChDot     == 46

IsDigit(c) == c \in Ch0..(Ch0 + 9)

DigitVal(c) == c - Ch0

\* The two characters of the decimal rendering of n (0..99).
Two(n) == << Ch0 + (n \div 10), Ch0 + (n % 10) >>

Four(n) == << Ch0 + (n \div 1000), Ch0 + ((n \div 100) % 10) >> \o Two(n % 100)

\* Python's str < str on two names: lexicographic on code points.
RECURSIVE StrLess(_, _)
StrLess(a, b) ==
    IF b = << >> THEN FALSE
    ELSE IF a = << >> THEN TRUE
    ELSE IF Head(a) # Head(b) THEN Head(a) < Head(b)
    ELSE StrLess(Tail(a), Tail(b))

\* Python's s[lo:hi] (0-based, hi exclusive, clipped to the string).
Slice(s, lo, hi) ==
    LET top == IF hi < Len(s) THEN hi ELSE Len(s)
    IN  IF lo >= top THEN << >> ELSE SubSeq(s, lo + 1, top)

\* ------------------------------------------------- datetime, timedelta

\* previous_dt before the first parsed file.
None == [none |-> TRUE]

\* The outcome of strptime on a window it rejects.
ValueError == [raised |-> "ValueError"]

SecondsPerDay == 86400

IsLeap(y) == (y % 4 = 0) /\ ((y % 100 # 0) \/ (y % 400 = 0))

DaysInMonth(y, m) ==
    IF m = 2 THEN (IF IsLeap(y) THEN 29 ELSE 28)
    ELSE IF m \in {4, 6, 9, 11} THEN 30 ELSE 31

RECURSIVE DaysBeforeMonth(_, _)
DaysBeforeMonth(y, m) ==
    IF m = 1 THEN 0 ELSE DaysBeforeMonth(y, m - 1) + DaysInMonth(y, m - 1)

DaysBeforeYear(y) ==
    LET p == y - 1
    IN  p * 365 + (p \div 4) - (p \div 100) + (p \div 400)

\* datetime.toordinal(): day number, 1 for 0001-01-01.
toordinal(dt) ==
    DaysBeforeYear(dt.year) + DaysBeforeMonth(dt.year, dt.month) + dt.day

\* timedelta(days, seconds): the constructor normalises to 0 <= seconds < 86400.
timedelta(d, s) ==
    [days |-> d + (s \div SecondsPerDay), seconds |-> s % SecondsPerDay]

\* datetime - datetime.
dtsub(a, b) ==
    timedelta(toordinal(a) - toordinal(b),
              (a.hour * 3600 + a.minute * 60 + a.second)
                - (b.hour * 3600 + b.minute * 60 + b.second))

\* timedelta > timedelta: comparison of (days, seconds).
tdgreater(a, b) ==
    \/ a.days > b.days
    \/ a.days = b.days /\ a.seconds > b.seconds

\* datetime.strptime(w, '%Y%m%d_%H%M%S') on the 15-character window of a
\* name: eight digits (the day may be a blank and a digit 1..9), '_', six
\* digits, each field in the range datetime accepts; ValueError otherwise.
strptime(w) ==
    IF Len(w) # 15 THEN ValueError
    ELSE IF w[9] # ChUnder THEN ValueError
    ELSE IF \E k \in (1..6) \cup (10..15) : ~IsDigit(w[k]) THEN ValueError
    ELSE IF ~(  (IsDigit(w[7]) /\ IsDigit(w[8]))
             \/ (w[7] = ChSpace /\ IsDigit(w[8]) /\ w[8] # Ch0) ) THEN ValueError
    ELSE
      LET Y  == DigitVal(w[1]) * 1000 + DigitVal(w[2]) * 100
                  + DigitVal(w[3]) * 10 + DigitVal(w[4])
          mo == DigitVal(w[5]) * 10 + DigitVal(w[6])
          d  == (IF w[7] = ChSpace THEN 0 ELSE DigitVal(w[7]) * 10) + DigitVal(w[8])
          H  == DigitVal(w[10]) * 10 + DigitVal(w[11])
          M  == DigitVal(w[12]) * 10 + DigitVal(w[13])
          S  == DigitVal(w[14]) * 10 + DigitVal(w[15])
      IN  IF Y < 1 \/ mo < 1 \/ mo > 12 \/ H > 23 \/ M > 59 \/ S > 59
            THEN ValueError
          ELSE IF d < 1 \/ d > DaysInMonth(Y, mo) THEN ValueError
          ELSE [year |-> Y, month |-> mo, day |-> d,
                hour |-> H, minute |-> M, second |-> S]

MonthAbbr ==
    << "Jan", "Feb", "Mar", "Apr", "May", "Jun",
       "Jul", "Aug", "Sep", "Oct", "Nov", "Dec" >>

Pad2(n) == IF n < 10 THEN "0" \o ToString(n) ELSE ToString(n)

Pad4(n) ==
    IF n < 10 THEN "000" \o ToString(n)
    ELSE IF n < 100 THEN "00" \o ToString(n)
    ELSE IF n < 1000 THEN "0" \o ToString(n)
    ELSE ToString(n)

\* datetime.strftime('%d-%b-%Y %H:%M:%S').
strftime(dt) ==
    Pad2(dt.day) \o "-" \o MonthAbbr[dt.month] \o "-" \o Pad4(dt.year) \o " "
      \o Pad2(dt.hour) \o ":" \o Pad2(dt.minute) \o ":" \o Pad2(dt.second)

\* ------------------------------------------------------- directories

\* The station part of an FF file name, "FF_UK003<p>_": ten characters.
Station(p) == << ChF, ChF, ChUnder, ChU, ChK, Ch0, Ch0, Ch0 + 3, Ch0 + p, ChUnder >>

Stamp(Y, mo, d, H, M, S) ==
    Four(Y) \o Two(mo) \o Two(d) \o << ChUnder >> \o Two(H) \o Two(M) \o Two(S)

\* ".fits" and ".bin"
ExtFits == << ChDot, 102, 105, 116, 115 >>

ExtBin == << ChDot, 98, 105, 110 >>

\* The directory entries the model draws directories from.  With t0 =
\* 13-Apr-2023 19:27:22: t0, +15 s, +31 s, +51 s, +81 s, +106 s, and
\* 18 days and 10 s after t0; a non-numeric window, 29 February of a
\* common year, a day written blank-digit, a second station whose names
\* sort after the first's, and a file that is no *.fits file.
GoodEntries ==
    { Station(4) \o Stamp(2023, 4, 13, 19, 27, 22) \o ExtFits,
      Station(4) \o Stamp(2023, 4, 13, 19, 27, 53) \o ExtFits,
      Station(4) \o Stamp(2023, 4, 13, 19, 28, 13) \o ExtFits,
      Station(4) \o Stamp(2023, 4, 13, 19, 28, 43) \o ExtFits,
      Station(4) \o Stamp(2023, 4, 13, 19, 29, 8) \o ExtFits,
      Station(4) \o Stamp(2023, 5, 1, 19, 27, 32) \o ExtFits }

\* A name whose window ends in a letter: it sorts between t0 and t0 + 15 s.
BadEntry ==
    Station(4) \o [Stamp(2023, 4, 13, 19, 27, 20) EXCEPT ![15] = ChX] \o ExtFits

OtherEntry == Station(4) \o Stamp(2023, 4, 13, 19, 27, 45) \o ExtBin

Entries ==
    GoodEntries \cup
    { BadEntry,
      OtherEntry,
      Station(4) \o Stamp(2023, 4, 13, 19, 27, 37) \o ExtFits,
      Station(4) \o Stamp(2023, 2, 29, 0, 0, 0) \o ExtFits,
      Station(4) \o [Stamp(2023, 4, 3, 19, 27, 22) EXCEPT ![7] = ChSpace] \o ExtFits,
      Station(5) \o Stamp(2023, 4, 13, 19, 27, 30) \o ExtFits }

\* A directory is the set of its entries.
Directories == { S \in SUBSET Entries : Cardinality(S) <= MaxFiles }

\* The capture directories rmsExternal is run on.
CapDirectories ==
    { S \in SUBSET (GoodEntries \cup {BadEntry}) : Cardinality(S) <= MaxFiles }

\* The directories of the tree commandLine walks.
WalkDirectories ==
    { S \in SUBSET { Station(4) \o Stamp(2023, 4, 13, 19, 27, 22) \o ExtFits,
                     Station(4) \o Stamp(2023, 4, 13, 19, 27, 53) \o ExtFits,
                     BadEntry, OtherEntry } : Cardinality(S) <= MaxWalkFiles }

\* sorted(os.walk(path)): the directories of the tree in the order of
\* their paths; position k of the sequence stands for the k-th path.
RECURSIVE Trees(_)
Trees(n) ==
    IF n = 0 THEN { << >> }
    ELSE Trees(n - 1) \cup
         { Append(t, d) : t \in { u \in Trees(n - 1) : Len(u) = n - 1 },
                          d \in WalkDirectories }

EndsWith(s, suffix) ==
    Len(s) >= Len(suffix)
      /\ SubSeq(s, Len(s) - Len(suffix) + 1, Len(s)) = suffix

\* glob.glob(directory + '/*.fits'): the entries ending in ".fits".
glob(directory) == { e \in directory : EndsWith(e, ExtFits) }

\* sorted(...): ascending in Python's string order.
RECURSIVE sorted(_)
sorted(S) ==
    IF S = {} THEN << >>
    ELSE LET first == CHOOSE a \in S : \A b \in S \ {a} : StrLess(a, b)
         IN  << first >> \o sorted(S \ {first})

\* os.path.basename(file): the paths of one listing share the directory
\* part, so a path is modelled by its last component.
basename(file) == file

\* ------------------------------------------------- checkDroppedFrames

DROPPED_FRAME_TDELTA == timedelta(0, 15)

\* The separator written between the two timestamps of a detail string:
\* the source's literal, a blank, the three code points U+00E2 U+2020
\* U+2019 and a blank.
Arrow == " <U+00E2><U+2020><U+2019> "

\* InitLocals with previous_dt started at datetime.min in place of None.
InitLocalsFromMin ==
    [ files_analysed  |-> 0,
      files_ignored   |-> 0,
      dropped_frames  |-> 0,
      dropped_times   |-> << >>,
      dropped_average |-> 0,
      dropped_details |-> << >>,
      previous_dt     |-> [year |-> 1, month |-> 1, day |-> 1,
                           hour |-> 0, minute |-> 0, second |-> 0],
      tdelta          |-> timedelta(0, 0) ]

\* The locals of checkDroppedFrames as it enters the loop.
InitLocals ==
    [ files_analysed  |-> 0,
      files_ignored   |-> 0,
      dropped_frames  |-> 0,
      dropped_times   |-> << >>,
      dropped_average |-> 0,
      dropped_details |-> << >>,
      previous_dt     |-> None,
      tdelta          |-> timedelta(0, 0) ]

\* fname[10:25], the window of the name that holds the timestamp.
Window(fname) == Slice(fname, 10, 25)

\* "if previous_dt:" -- a datetime is always true, None is false.
HasPrevious(s) == s.previous_dt # None

\* IsDropped with ">=" in place of ">".
IsDroppedAtThreshold(td) ==
    tdgreater(td, DROPPED_FRAME_TDELTA) \/ td = DROPPED_FRAME_TDELTA

\* "if tdelta > DROPPED_FRAME_TDELTA:"
IsDropped(td) == tdgreater(td, DROPPED_FRAME_TDELTA)

\* The duration recorded and printed for a gap: tdelta.seconds.
RecordedSeconds(td) == td.seconds

\* Detail with the two timestamps in the opposite order.
DetailSwapped(prev, cur, td) ==
    strftime(cur) \o Arrow \o strftime(prev) \o " = "
      \o ToString(td.seconds) \o " seconds"

\* One detail string.
Detail(prev, cur, td) ==
    strftime(prev) \o Arrow \o strftime(cur) \o " = "
      \o ToString(RecordedSeconds(td)) \o " seconds"

\* LoopBody whose ValueError branch also forgets the previous timestamp.
LoopBodyBreaksChain(s, file) ==
    LET current_dt == strptime(Window(basename(file)))
    IN  IF current_dt = ValueError
          THEN [s EXCEPT !.files_ignored = @ + 1, !.previous_dt = None]
          ELSE
            LET td   == IF HasPrevious(s) THEN dtsub(current_dt, s.previous_dt)
                                          ELSE s.tdelta
                drop == HasPrevious(s) /\ IsDropped(td)
            IN  [s EXCEPT
                   !.tdelta          = td,
                   !.dropped_frames  = IF drop THEN @ + 1 ELSE @,
                   !.dropped_times   = IF drop THEN Append(@, RecordedSeconds(td)) ELSE @,
                   !.dropped_details =
                       IF drop THEN Append(@, Detail(s.previous_dt, current_dt, td)) ELSE @,
                   !.files_analysed  = @ + 1,
                   !.previous_dt     = current_dt]

\* LoopBody without the "continue": a file with a bad name is counted as
\* ignored and as analysed.
LoopBodyNoContinue(s, file) ==
    LET current_dt == strptime(Window(basename(file)))
    IN  IF current_dt = ValueError
          THEN [s EXCEPT !.files_ignored = @ + 1, !.files_analysed = @ + 1]
          ELSE
            LET td   == IF HasPrevious(s) THEN dtsub(current_dt, s.previous_dt)
                                          ELSE s.tdelta
                drop == HasPrevious(s) /\ IsDropped(td)
            IN  [s EXCEPT
                   !.tdelta          = td,
                   !.dropped_frames  = IF drop THEN @ + 1 ELSE @,
                   !.dropped_times   = IF drop THEN Append(@, RecordedSeconds(td)) ELSE @,
                   !.dropped_details =
                       IF drop THEN Append(@, Detail(s.previous_dt, current_dt, td)) ELSE @,
                   !.files_analysed  = @ + 1,
                   !.previous_dt     = current_dt]

\* The body of the loop for one file, on the locals s.
LoopBody(s, file) ==
    LET current_dt == strptime(Window(basename(file)))
    IN  IF current_dt = ValueError
          THEN [s EXCEPT !.files_ignored = @ + 1]
          ELSE
            LET td   == IF HasPrevious(s) THEN dtsub(current_dt, s.previous_dt)
                                          ELSE s.tdelta
                drop == HasPrevious(s) /\ IsDropped(td)
            IN  [s EXCEPT
                   !.tdelta          = td,
                   !.dropped_frames  = IF drop THEN @ + 1 ELSE @,
                   !.dropped_times   = IF drop THEN Append(@, RecordedSeconds(td)) ELSE @,
                   !.dropped_details =
                       IF drop THEN Append(@, Detail(s.previous_dt, current_dt, td)) ELSE @,
                   !.files_analysed  = @ + 1,
                   !.previous_dt     = current_dt]

RECURSIVE SumSeq(_)
SumSeq(q) == IF q = << >> THEN 0 ELSE Head(q) + SumSeq(Tail(q))

\* IntMean with round() in place of int().
IntMeanRounded(q) == (2 * SumSeq(q) + Len(q)) \div (2 * Len(q))

\* int(mean(dropped_times)) on a non-empty list of non-negative integers.
IntMean(q) == SumSeq(q) \div Len(q)

\* The lines after the loop: the average.
AfterLoop(s) ==
    IF s.dropped_frames # 0
      THEN [s EXCEPT !.dropped_average = IntMean(s.dropped_times)]
      ELSE s

\* The dictionary returned.
Results(s) ==
    [ analysed |-> s.files_analysed,
      ignored  |-> s.files_ignored,
      dropped  |-> s.dropped_frames,
      average  |-> s.dropped_average,
      details  |-> s.dropped_details ]

RECURSIVE Loop(_, _)
Loop(s, fs) == IF fs = << >> THEN s ELSE Loop(LoopBody(s, Head(fs)), Tail(fs))

\* checkDroppedFrames as one call, for its callers.
checkDroppedFrames(directory) ==
    Results(AfterLoop(Loop(InitLocals, sorted(glob(directory)))))

\* --------------------------------------------------------------- state

VARIABLES
    directory,        \* the directory scanned: the set of its entries
    files,            \* sorted(glob.glob(directory + '/*.fits'))
    idx,              \* how many files of the listing the loop has taken
    files_analysed,
    files_ignored,
    dropped_frames,
    dropped_times,
    dropped_average,
    dropped_details,
    previous_dt,
    tdelta,
    pc,               \* where checkDroppedFrames is: "loop" or "done"
    results           \* the dictionary returned, None before the return

scanvars ==
    << directory, files, idx, files_analysed, files_ignored, dropped_frames,
       dropped_times, dropped_average, dropped_details, previous_dt, tdelta,
       pc, results >>

\* The locals of the running scan as one record.
Locals ==
    [ files_analysed  |-> files_analysed,
      files_ignored   |-> files_ignored,
      dropped_frames  |-> dropped_frames,
      dropped_times   |-> dropped_times,
      dropped_average |-> dropped_average,
      dropped_details |-> dropped_details,
      previous_dt     |-> previous_dt,
      tdelta          |-> tdelta ]

SetLocals(s) ==
    /\ files_analysed'  = s.files_analysed
    /\ files_ignored'   = s.files_ignored
    /\ dropped_frames'  = s.dropped_frames
    /\ dropped_times'   = s.dropped_times
    /\ dropped_average' = s.dropped_average
    /\ dropped_details' = s.dropped_details
    /\ previous_dt'     = s.previous_dt
    /\ tdelta'          = s.tdelta

\* checkDroppedFrames(directory) has initialised its locals and listed the
\* directory.
ScanInit ==
    /\ directory \in Directories
    /\ files = sorted(glob(directory))
    /\ idx = 0
    /\ files_analysed  = InitLocals.files_analysed
    /\ files_ignored   = InitLocals.files_ignored
    /\ dropped_frames  = InitLocals.dropped_frames
    /\ dropped_times   = InitLocals.dropped_times
    /\ dropped_average = InitLocals.dropped_average
    /\ dropped_details = InitLocals.dropped_details
    /\ previous_dt     = InitLocals.previous_dt
    /\ tdelta          = InitLocals.tdelta
    /\ pc = "loop"
    /\ results = None

\* One iteration of "for file in sorted(glob.glob(...))".
ForEachFile ==
    /\ pc = "loop"
    /\ idx < Len(files)
    /\ SetLocals(LoopBody(Locals, files[idx + 1]))
    /\ idx' = idx + 1
    /\ UNCHANGED << directory, files, pc, results >>

\* The loop is exhausted: the average is computed and the results returned.
Return ==
    /\ pc = "loop"
    /\ idx = Len(files)
    /\ SetLocals(AfterLoop(Locals))
    /\ results' = Results(AfterLoop(Locals))
    /\ pc' = "done"
    /\ UNCHANGED << directory, files, idx >>

\* ---------------------------------------------------------- commandLine

VARIABLES
    walk,             \* sorted(os.walk(path)): the directories to visit
    widx,             \* how many of them the loop has taken
    total_files,
    printed,          \* the blocks printed so far
    cpc               \* where commandLine is: "walk" or "done"

cmdvars == << walk, widx, total_files, printed, cpc >>

\* f'{n:9,}' for n < 1000: right-aligned in nine columns.
Fmt9(n) ==
    IF n < 10 THEN "        " \o ToString(n)
    ELSE IF n < 100 THEN "       " \o ToString(n)
    ELSE "      " \o ToString(n)

RECURSIVE Indented(_)
Indented(details) ==
    IF details = << >> THEN << >>
    ELSE << "            " \o Head(details) >> \o Indented(Tail(details))

\* "if results["files analysed"] > 0:" -- whether a directory gets a block.
PrintsBlock(r) == r.analysed > 0

\* The lines printed for a directory after the blank line and its path.
BlockLines(r) ==
    IF r.ignored = 0 /\ r.dropped = 0
      THEN << Fmt9(r.analysed) \o " FF files analysed."
                \o " No dropped frames detected." >>
      ELSE << Fmt9(r.analysed) \o " FF files analysed." >>
           \o (IF r.ignored > 0
                 THEN << Fmt9(r.ignored) \o " FF files ignored"
                           \o " (bad filename format)." >>
                 ELSE << >>)
           \o (IF r.dropped >= 0
                 THEN << Fmt9(r.dropped) \o " FF files found with a time gap"
                           \o " of more than "
                           \o ToString(DROPPED_FRAME_TDELTA.seconds)
                           \o " seconds:" >>
                      \o Indented(r.details)
                 ELSE << >>)

CmdInit ==
    /\ walk \in Trees(MaxDirs)
    /\ widx = 0
    /\ total_files = 0
    /\ printed = << >>
    /\ cpc = "walk"

\* One iteration of "for directory, _, _ in sorted(os.walk(path))".
VisitDirectory ==
    /\ cpc = "walk"
    /\ widx < Len(walk)
    /\ LET r == checkDroppedFrames(walk[widx + 1])
       IN  IF PrintsBlock(r)
             THEN /\ printed' = Append(printed,
                                  [directory |-> widx + 1, lines |-> BlockLines(r)])
                  /\ total_files' = total_files + r.analysed
             ELSE UNCHANGED << printed, total_files >>
    /\ widx' = widx + 1
    /\ UNCHANGED << walk, cpc >>

\* After the loop: "No FF files found" when nothing was analysed.
Finish ==
    /\ cpc = "walk"
    /\ widx = Len(walk)
    /\ printed' = IF total_files = 0
                    THEN Append(printed,
                           [directory |-> 0,
                            lines |-> << "No FF files found in /home/pi/RMS_data/CapturedFiles" >>])
                    ELSE printed
    /\ cpc' = "done"
    /\ UNCHANGED << walk, widx, total_files >>

\* ---------------------------------------------------------- rmsExternal

EMAIL_RESULTS == TRUE

EMAIL_FRAMES == 5

ANNOTATE_IMAGE == TRUE

Credentials == { "EMAIL_TO", "EMAIL_FROM", "EMAIL_FROM_PASSWORD" }

NotSent == "email not sent (invalid credentials)"

Sent == "email sent to EMAIL_TO"

VARIABLES
    cap_dir,          \* the capture directory of the night
    environ,          \* which of the credentials myEmail.setVar() sets
    extrascript,      \* the file 'extrascript': "absent", or whether the
                      \* module it names is "loadable" or "unloadable"
    rebootlockfile,   \* whether the reboot lock file exists
    rms_results,      \* results, None before checkDroppedFrames returns
    emails,           \* the messages handed to the SMTP server, in order
    logged,           \* what sendEmail returned, in order
    annotations,      \* the messages written on the stack images
    rpc               \* where rmsExternal is, or how it ended: "returned",
                      \* or the exception that left it

rmsvars ==
    << cap_dir, environ, extrascript, rebootlockfile, rms_results, emails,
       logged, annotations, rpc >>

\* "if not email_to or not email_from or not email_from_password"
InvalidCredentials(env) == \E c \in Credentials : ~env[c]

\* ShouldWarn with ">" in place of ">=".
ShouldWarnExceeds(r) == EMAIL_RESULTS /\ r.dropped > EMAIL_FRAMES

\* "if EMAIL_RESULTS and results["dropped frames"] >= EMAIL_FRAMES"
ShouldWarn(r) == EMAIL_RESULTS /\ r.dropped >= EMAIL_FRAMES

\* sendEmail(subject, ...): what is sent, what is returned, whether the
\* SMTP session raised (smtp_ok is the server's answer).
sendEmail(subject, env, smtp_ok) ==
    IF InvalidCredentials(env)
      THEN [send |-> << >>, ret |-> << NotSent >>, raised |-> FALSE]
    ELSE IF smtp_ok
      THEN [send |-> << subject >>, ret |-> << Sent >>, raised |-> FALSE]
    ELSE [send |-> << >>, ret |-> << >>, raised |-> TRUE]

\* The text written on a stack image.
AnnotateMessage(r) ==
    IF r.dropped = 0 THEN "No dropped frames detected"
    ELSE ToString(r.dropped) \o " dropped frame"
           \o (IF r.dropped = 1 THEN " detected (" ELSE "s detected (average ")
           \o ToString(r.average) \o " seconds)"

RmsInit ==
    /\ cap_dir \in CapDirectories
    /\ environ \in [Credentials -> BOOLEAN]
    /\ extrascript \in { "absent", "loadable", "unloadable" }
    /\ rebootlockfile = FALSE
    /\ rms_results = None
    /\ emails = << >>
    /\ logged = << >>
    /\ annotations = << >>
    /\ rpc = "start"

\* The reboot lock file is written.
CreateLock ==
    /\ rpc = "start"
    /\ rebootlockfile' = TRUE
    /\ rpc' = "check"
    /\ UNCHANGED << cap_dir, environ, extrascript, rms_results, emails,
                    logged, annotations >>

\* results = checkDroppedFrames(cap_dir)
Check ==
    /\ rpc = "check"
    /\ rms_results' = checkDroppedFrames(cap_dir)
    /\ rpc' = "warn"
    /\ UNCHANGED << cap_dir, environ, extrascript, rebootlockfile, emails,
                    logged, annotations >>

\* The warning about dropped frames.
Warn ==
    /\ rpc = "warn"
    /\ IF ShouldWarn(rms_results)
         THEN \E smtp_ok \in BOOLEAN :
                LET e == sendEmail("Dropped frames", environ, smtp_ok)
                IN  /\ emails' = emails \o e.send
                    /\ logged' = logged \o e.ret
                    /\ rpc' = IF e.raised THEN "SMTPException" ELSE "annotate"
         ELSE /\ rpc' = "annotate"
              /\ UNCHANGED << emails, logged >>
    /\ UNCHANGED << cap_dir, environ, extrascript, rebootlockfile,
                    rms_results, annotations >>

\* The stack images of cap_dir and arch_dir (n of them) are copied and
\* annotated.
Annotate ==
    /\ rpc = "annotate"
    /\ IF ANNOTATE_IMAGE
         THEN \E n \in 0..1 :
                annotations' = [k \in 1..n |-> AnnotateMessage(rms_results)]
         ELSE UNCHANGED annotations
    /\ rpc' = "images"
    /\ UNCHANGED << cap_dir, environ, extrascript, rebootlockfile,
                    rms_results, emails, logged >>

\* "Send email with main images"
SendImages ==
    /\ rpc = "images"
    /\ \E smtp_ok \in BOOLEAN :
         LET e == sendEmail("Images", environ, smtp_ok)
         IN  /\ emails' = emails \o e.send
             /\ logged' = logged \o e.ret
             /\ rpc' = IF e.raised THEN "SMTPException" ELSE "extra"
    /\ UNCHANGED << cap_dir, environ, extrascript, rebootlockfile,
                    rms_results, annotations >>

\* What the "try:" on the extra script does to the lock file and where it
\* leaves rmsExternal.  A missing file is an OSError: the lock file is
\* removed and rmsExternal returns.  A module that cannot be imported
\* raises ImportError, which "except (IOError, OSError)" does not catch.
\* A loaded module's rmsExternal is called.
ExtraScriptOutcome(script, lock) ==
    IF script = "absent" THEN [lock |-> FALSE, pc |-> "returned"]
    ELSE IF script = "unloadable" THEN [lock |-> lock, pc |-> "ImportError"]
    ELSE [lock |-> lock, pc |-> "chained"]

\* "Test for additional script"
ExtraScript ==
    /\ rpc = "extra"
    /\ LET o == ExtraScriptOutcome(extrascript, rebootlockfile)
       IN  /\ rebootlockfile' = o.lock
           /\ rpc' = o.pc
    /\ UNCHANGED << cap_dir, environ, extrascript, rms_results, emails,
                    logged, annotations >>

\* nextscr.rmsExternal(cap_dir, arch_dir, config) returns; the lock file is
\* what that script leaves of it.
ChainedScript ==
    /\ rpc = "chained"
    /\ \E removes \in BOOLEAN : rebootlockfile' = (rebootlockfile /\ ~removes)
    /\ rpc' = "returned"
    /\ UNCHANGED << cap_dir, environ, extrascript, rms_results, emails,
                    logged, annotations >>

\* ------------------------------------------------------ specifications

ScanIdle ==
    /\ directory = {}
    /\ files = << >>
    /\ idx = 0
    /\ files_analysed  = InitLocals.files_analysed
    /\ files_ignored   = InitLocals.files_ignored
    /\ dropped_frames  = InitLocals.dropped_frames
    /\ dropped_times   = InitLocals.dropped_times
    /\ dropped_average = InitLocals.dropped_average
    /\ dropped_details = InitLocals.dropped_details
    /\ previous_dt     = InitLocals.previous_dt
    /\ tdelta          = InitLocals.tdelta
    /\ pc = "idle"
    /\ results = None

CmdIdle ==
    /\ walk = << >>
    /\ widx = 0
    /\ total_files = 0
    /\ printed = << >>
    /\ cpc = "idle"

RmsIdle ==
    /\ cap_dir = {}
    /\ environ = [c \in Credentials |-> FALSE]
    /\ extrascript = "absent"
    /\ rebootlockfile = FALSE
    /\ rms_results = None
    /\ emails = << >>
    /\ logged = << >>
    /\ annotations = << >>
    /\ rpc = "idle"

vars == << scanvars, cmdvars, rmsvars >>

\* checkDroppedFrames on one directory, file by file.
Init == ScanInit /\ CmdIdle /\ RmsIdle

Next ==
    \/ ForEachFile /\ UNCHANGED << cmdvars, rmsvars >>
    \/ Return /\ UNCHANGED << cmdvars, rmsvars >>

Spec == Init /\ [][Next]_vars

\* The command-line run over a tree.
InitCommandLine == ScanIdle /\ CmdInit /\ RmsIdle

NextCommandLine ==
    \/ VisitDirectory /\ UNCHANGED << scanvars, rmsvars >>
    \/ Finish /\ UNCHANGED << scanvars, rmsvars >>

SpecCommandLine == InitCommandLine /\ [][NextCommandLine]_vars

\* The nightly run as an RMS external script.
InitRmsExternal == ScanIdle /\ CmdIdle /\ RmsInit

NextRmsExternal ==
    \/ CreateLock /\ UNCHANGED << scanvars, cmdvars >>
    \/ Check /\ UNCHANGED << scanvars, cmdvars >>
    \/ Warn /\ UNCHANGED << scanvars, cmdvars >>
    \/ Annotate /\ UNCHANGED << scanvars, cmdvars >>
    \/ SendImages /\ UNCHANGED << scanvars, cmdvars >>
    \/ ExtraScript /\ UNCHANGED << scanvars, cmdvars >>
    \/ ChainedScript /\ UNCHANGED << scanvars, cmdvars >>

SpecRmsExternal == InitRmsExternal /\ [][NextRmsExternal]_vars

\* -------------------------------------------------------------- claims

\* The *.fits files of a directory.
Matching(d) == { e \in d : EndsWith(e, ExtFits) }

\* The timestamp of the k-th file of the listing, or ValueError.
Stamped(k) == strptime(Window(basename(files[k])))

Parsed(k) == Stamped(k) # ValueError

\* The last parsed file before the k-th, 0 when there is none.
LastParsedBefore(k) ==
    IF \E j \in 1..(k - 1) : Parsed(j)
      THEN CHOOSE j \in 1..(k - 1) :
             Parsed(j) /\ \A i \in (j + 1)..(k - 1) : ~Parsed(i)
      ELSE 0

\* The time from a to b in seconds.
ElapsedSeconds(a, b) ==
    (toordinal(b) - toordinal(a)) * 86400
      + (b.hour * 3600 + b.minute * 60 + b.second)
      - (a.hour * 3600 + a.minute * 60 + a.second)

\* The time from the last parsed file before the k-th to the k-th.
ElapsedAt(k) == ElapsedSeconds(Stamped(LastParsedBefore(k)), Stamped(k))

GapAt(k) == Parsed(k) /\ LastParsedBefore(k) # 0 /\ ElapsedAt(k) > 15

Gaps(n) == { k \in 1..n : GapAt(k) }

RECURSIVE Ascending(_)
Ascending(S) ==
    IF S = {} THEN << >>
    ELSE LET least == CHOOSE a \in S : \A b \in S : a <= b
         IN  << least >> \o Ascending(S \ {least})

\* The positions of the gaps among the first n files, in file order.
GapSeq(n) == Ascending(Gaps(n))

\* C1: after any number of files of the sorted listing, the gaps counted
\* and reported are exactly the parsed files that lie more than 15 s after
\* the last parsed file before them; the returned count is their number.
C1_GapsAboveThreshold ==
    /\ dropped_frames = Cardinality(Gaps(idx))
    /\ Len(dropped_details) = Cardinality(Gaps(idx))
    /\ pc = "done" => results.dropped = Cardinality(Gaps(Len(files)))

\* A finished scan that met a difference of exactly 15 s (not reported) and
\* one of 16 s (reported).
C1_Witness ==
    /\ pc = "done"
    /\ \E k \in 1..Len(files) :
         Parsed(k) /\ LastParsedBefore(k) # 0 /\ ElapsedAt(k) = 15 /\ k \notin Gaps(idx)
    /\ \E k \in 1..Len(files) :
         Parsed(k) /\ LastParsedBefore(k) # 0 /\ ElapsedAt(k) = 16 /\ k \in Gaps(idx)
    /\ results.dropped = 1

\* C2: the duration recorded for every gap, and printed in its detail
\* string, is the whole length of the gap in seconds, also for gaps of a
\* day or more.
C2_RecordedIsTotalSeconds ==
    \A j \in 1..Len(dropped_times) :
      /\ j <= Len(GapSeq(idx))
      /\ dropped_times[j] = ElapsedAt(GapSeq(idx)[j])

\* C3: the returned average is 0 without gaps and otherwise the mean of
\* the recorded durations truncated to an integer.
C3_AverageTruncatedMean ==
    pc = "done" =>
      IF results.dropped = 0
        THEN results.average = 0
        ELSE /\ Len(dropped_times) = results.dropped
             /\ results.average * Len(dropped_times) <= SumSeq(dropped_times)
             /\ SumSeq(dropped_times) < (results.average + 1) * Len(dropped_times)

\* Recorded gaps of 20 s, 30 s and 25 s: count 3, average 25.
C3_Witness ==
    /\ pc = "done"
    /\ dropped_times = << 20, 30, 25 >>
    /\ results.dropped = 3
    /\ results.average = 25

\* C4: a step on a file whose window does not parse adds one to 'files
\* ignored' and changes nothing else; a step on a parsed file compares it
\* with the last parsed file before it, whatever lies between them.
C4_MalformedKeepsChain ==
    [][ (pc = "loop" /\ idx' = idx + 1) =>
          IF ~Parsed(idx + 1)
            THEN /\ files_ignored' = files_ignored + 1
                 /\ UNCHANGED << files_analysed, dropped_frames, dropped_times,
                                 dropped_average, dropped_details, previous_dt >>
            ELSE /\ files_ignored' = files_ignored
                 /\ files_analysed' = files_analysed + 1
                 /\ previous_dt' = Stamped(idx + 1)
                 /\ LastParsedBefore(idx + 1) # 0 =>
                      /\ previous_dt = Stamped(LastParsedBefore(idx + 1))
                      /\ tdelta' = dtsub(Stamped(idx + 1),
                                         Stamped(LastParsedBefore(idx + 1)))
                 /\ (dropped_frames' = dropped_frames + 1) <=> GapAt(idx + 1)
                 /\ (dropped_frames' = dropped_frames) <=> ~GapAt(idx + 1) ]_vars

\* A malformed file between two parsed files more than 15 s apart: it was
\* ignored and the gap between its neighbours was reported.
C4_Witness ==
    \E k \in 2..(idx - 1) :
      /\ ~Parsed(k) /\ Parsed(k - 1) /\ Parsed(k + 1)
      /\ GapAt(k + 1)
      /\ files_ignored = 1
      /\ dropped_frames = 1

\* C5: after each file, and at the end, every file taken so far is counted
\* once: as analysed when its window parses, as ignored when it does not;
\* at the end the two counts add up to the number of *.fits files.
C5_CountsPartitionFiles ==
    /\ idx <= Len(files)
    /\ files_analysed = Cardinality({ k \in 1..idx : Parsed(k) })
    /\ files_ignored = Cardinality({ k \in 1..idx : ~Parsed(k) })
    /\ files_analysed + files_ignored = idx
    /\ pc = "done" =>
         results.analysed + results.ignored = Cardinality(Matching(directory))

\* A finished scan of a directory with parsed and unparsed *.fits files and
\* a file that is none.
C5_Witness ==
    /\ pc = "done"
    /\ results.analysed >= 2
    /\ results.ignored >= 1
    /\ Cardinality(directory) > Cardinality(Matching(directory))

\* The detail string the j-th gap should have, with sep between the two
\* timestamps.
ExpectedDetail(j, sep) ==
    LET k == GapSeq(idx)[j]
    IN  strftime(Stamped(LastParsedBefore(k))) \o sep \o strftime(Stamped(k))
          \o " = " \o ToString(dropped_times[j]) \o " seconds"

C7_EmptyAndSingle ==
    pc = "done" =>
      /\ results # None
      /\ Matching(directory) = {} =>
           results = [analysed |-> 0, ignored |-> 0, dropped |-> 0,
                      average |-> 0, details |-> << >>]
      /\ (Cardinality(Matching(directory)) = 1 /\ Parsed(1)) =>
           /\ results.analysed = 1
           /\ results.dropped = 0

\* A finished scan of a directory with exactly one *.fits file, parseable.
C7_Witness ==
    /\ pc = "done"
    /\ Cardinality(Matching(directory)) = 1
    /\ Parsed(1)
    /\ results.analysed = 1

\* C8: at the end of the command-line run, a directory of the tree has a
\* block exactly when it holds at least one *.fits file.
C8_BlockPerMatchingDirectory ==
    cpc = "done" =>
      \A k \in 1..Len(walk) :
        (Matching(walk[k]) # {}) <=>
          (\E b \in 1..Len(printed) : printed[b].directory = k)

\* C9: the lock file exists while the directory is analysed, and is gone
\* when the run has ended after its test for the extra script: with no
\* extra script, with one that loaded and with one that failed to load.
C9_LockRemovedOnEveryPath ==
    /\ rpc = "check" => rebootlockfile
    /\ rpc \in { "returned", "ImportError" } => ~rebootlockfile

====
